---- MODULE Spec2Model ----
(***************************************************************************)
(* Model of finn/util/data_packing.py: packing the innermost dimension of  *)
(* a tensor into hex words (array2hexstring,                               *)
(* pack_innermost_dim_as_hex_string), unpacking hex words into a tensor    *)
(* (unpack_innermost_dim_from_hex_string) and the two rtlsim adapters      *)
(* (npy_to_rtlsim_input, rtlsim_output_to_npy).                            *)
(*                                                                         *)
(* Strings are sequences of one-character strings.  A BitArray is a        *)
(* sequence of bits, most significant first.  A Python int is a two-limb   *)
(* number hi * 2^16 + lo (0 <= lo < 2^16, hi any integer), so that the     *)
(* 32-bit words and values of UINT32 / INT32 are exact.  A float32 sample  *)
(* that holds a small integer is that integer.                             *)
(***************************************************************************)
EXTENDS Integers, Sequences, FiniteSets, TLC

\* ------------------------------------------------------------- bounds
\* most elements of a tensor or of a one-dimensional array
MaxElems == 4
\* largest pad_to_nbits / packedBits drawn
MaxPad == 9
\* most words in the list handed to the unpacker
MaxWords == 3
\* widest DataType whose samples are enumerated for packing
MaxBw == 3
\* longest one-dimensional array handed to array2hexstring
MaxLen == 3

\* ------------------------------------------------------------- helpers
Max(a, b) == IF a >= b THEN a ELSE b

Min(a, b) == IF a <= b THEN a ELSE b

Reverse(s) == [i \in 1..Len(s) |-> s[Len(s) + 1 - i]]

Zeros(n) == [i \in 1..Max(n, 0) |-> 0]

RECURSIVE Product(_)
Product(s) == IF s = <<>> THEN 1 ELSE Head(s) * Product(Tail(s))

\* Python's s[lo:hi] for 0 <= lo, 0 <= hi: clamped to the sequence
Slice(s, lo, hi) ==
    LET a == Min(lo, Len(s))
        b == Min(hi, Len(s))
    IN  IF b <= a THEN <<>> ELSE [i \in 1..(b - a) |-> s[a + i]]

\* ------------------------------------------------------------- DataType
DataTypes ==
    {"BINARY", "BIPOLAR", "UINT2", "UINT3", "UINT4", "UINT8", "UINT16",
     "UINT32", "INT2", "INT3", "INT4", "INT8", "INT16", "INT32"}

bitwidth(dtype) ==
    CASE dtype \in {"BINARY", "BIPOLAR"} -> 1
      [] dtype \in {"UINT2", "INT2"} -> 2
      [] dtype \in {"UINT3", "INT3"} -> 3
      [] dtype \in {"UINT4", "INT4"} -> 4
      [] dtype \in {"UINT8", "INT8"} -> 8
      [] dtype \in {"UINT16", "INT16"} -> 16
      [] dtype \in {"UINT32", "INT32"} -> 32

signed(dtype) ==
    dtype \in {"BIPOLAR", "INT2", "INT3", "INT4", "INT8", "INT16", "INT32"}

\* smallest and largest legal value; only for widths below 31
dtype_min(dtype) ==
    IF dtype = "BIPOLAR" THEN -1
    ELSE IF signed(dtype) THEN -(2 ^ (bitwidth(dtype) - 1)) ELSE 0

dtype_max(dtype) ==
    IF dtype = "BIPOLAR" THEN 1
    ELSE IF signed(dtype) THEN 2 ^ (bitwidth(dtype) - 1) - 1
    ELSE 2 ^ bitwidth(dtype) - 1

allowed(dtype, val) ==
    IF dtype = "BIPOLAR" THEN val \in {-1, 1}
    ELSE dtype_min(dtype) <= val /\ val <= dtype_max(dtype)

\* ------------------------------------------------------------- BitArray
\* BitArray(uint=v, length=bw) and BitArray(int=v, length=bw): the bw low
\* bits of v, two's complement for a negative v (\div floors)
BitArrayOfInt(v, bw) == [i \in 1..bw |-> (v \div (2 ^ (bw - i))) % 2]

HexChars ==
    <<"0", "1", "2", "3", "4", "5", "6", "7",
      "8", "9", "a", "b", "c", "d", "e", "f">>

\* BitArray.hex: one lowercase digit per nibble; callers check Len % 4 = 0
BitArrayHex(bits) ==
    [i \in 1..(Len(bits) \div 4) |->
        HexChars[8 * bits[4 * i - 3] + 4 * bits[4 * i - 2]
                 + 2 * bits[4 * i - 1] + bits[4 * i] + 1]]

\* ------------------------------------------------------------- results
Ok(v) == [err |-> "none", val |-> v]

Raise(e) == [err |-> e, val |-> <<>>]

\* ------------------------------------------------------------- array2hexstring
\* "if pad_to_nbits < 4: pad_to_nbits = 4"
CoercePadNoFloor(pad_to_nbits) == pad_to_nbits

CoercePad(pad_to_nbits) == IF pad_to_nbits < 4 THEN 4 ELSE pad_to_nbits

\* "array = (array + 1) / 2" for BIPOLAR; the samples drawn are odd, so the
\* float division is exact
BipolarToBinary(array) == [i \in DOMAIN array |-> (array[i] + 1) \div 2]

\* the loop "for val in array: ... lineval.append(...)": sample 0 first
RECURSIVE Lineval(_, _)
Lineval(array, dtype) ==
    IF array = <<>> THEN <<>>
    ELSE BitArrayOfInt(Head(array), bitwidth(dtype))
             \o Lineval(Tail(array), dtype)

\* "if pad_to_nbits >= lineval.len: lineval.prepend(...) else: raise"
PadLinevalTruncating(lineval, pad_to_nbits) ==
    IF pad_to_nbits >= Len(lineval)
    THEN Ok(Zeros(pad_to_nbits - Len(lineval)) \o lineval)
    ELSE Ok(Slice(lineval, Len(lineval) - pad_to_nbits, Len(lineval)))

PadLineval(lineval, pad_to_nbits) ==
    IF pad_to_nbits >= Len(lineval)
    THEN Ok(Zeros(pad_to_nbits - Len(lineval)) \o lineval)
    ELSE Raise("Exception")

\* "return prefix + lineval.hex"; BitArray.hex raises InterpretError when
\* the length is not a multiple of 4
HexOfLineval(lineval) ==
    IF Len(lineval) % 4 # 0 THEN Raise("InterpretError")
    ELSE Ok(<<"0", "x">> \o BitArrayHex(lineval))

array2hexstring(array, dtype, pad_to_nbits) ==
    LET pad == CoercePad(pad_to_nbits)
        arr == IF dtype = "BIPOLAR" THEN BipolarToBinary(array) ELSE array
        dt == IF dtype = "BIPOLAR" THEN "BINARY" ELSE dtype
    IN  IF \E i \in DOMAIN arr : ~allowed(dt, arr[i])
        THEN Raise("AssertionError")
        ELSE LET padded == PadLineval(Lineval(arr, dt), pad)
             IN  IF padded.err # "none" THEN padded
                 ELSE HexOfLineval(padded.val)

\* ------------------------------------------------------------- pack
\* the innermost-dimension slices of an ndarray, in row-major order
Rows(ndarray) ==
    LET n == ndarray.shape[Len(ndarray.shape)]
        k == Product(SubSeq(ndarray.shape, 1, Len(ndarray.shape) - 1))
    IN  [r \in 1..k |-> SubSeq(ndarray.flat, (r - 1) * n + 1, r * n)]

OuterShape(shape) == SubSeq(shape, 1, Len(shape) - 1)

\* np.apply_along_axis(fun, ndarray.ndim - 1, ndarray): the first failing
\* slice raises, otherwise one hex string per slice
pack_innermost_dim_as_hex_string(ndarray, dtype, pad_to_nbits) ==
    LET rows == Rows(ndarray)
        hex == [r \in DOMAIN rows |-> array2hexstring(rows[r], dtype, pad_to_nbits)]
        bad == {r \in DOMAIN rows : hex[r].err # "none"}
    IN  IF bad # {}
        THEN hex[CHOOSE r \in bad : \A q \in bad : r <= q]
        ELSE Ok([shape |-> OuterShape(ndarray.shape),
                 flat |-> [r \in DOMAIN rows |-> hex[r].val]])

\* ------------------------------------------------------------- Python int
\* the limb base
Base == 2 ^ 16

\* hi * Base + lo with the low limb brought back into 0 .. Base - 1
Norm(h, l) == [hi |-> h + (l \div Base), lo |-> l % Base]

PyInt(n) == Norm(0, n)

PyAdd(a, b) == Norm(a.hi + b.hi, a.lo + b.lo)

PyNeg(a) == Norm(-a.hi, -a.lo)

\* a * k for a small k >= 0
PyMul(a, k) == Norm(a.hi * k, a.lo * k)

PyIsNeg(a) == a.hi < 0

\* bit k of a (two's complement for a negative a, \div floors)
PyBit(a, k) ==
    IF k < 16 THEN (a.lo \div (2 ^ k)) % 2 ELSE (a.hi \div (2 ^ (k - 16))) % 2

\* a & 2**k
PyAndPow2(a, k) ==
    IF k < 16 THEN [hi |-> 0, lo |-> PyBit(a, k) * (2 ^ k)]
    ELSE [hi |-> PyBit(a, k) * (2 ^ (k - 16)), lo |-> 0]

\* a & ~(2**k): a with bit k cleared
PyAndNotPow2(a, k) == PyAdd(a, PyNeg(PyAndPow2(a, k)))

\* number of bits of a natural below 2^30, 0 for 0
NatLen(n) == CHOOSE k \in 0..30 : n < 2 ^ k /\ (k = 0 \/ 2 ^ (k - 1) <= n)

\* int.bit_length() of a >= 0
BitLength(a) == IF a.hi > 0 THEN 16 + NatLen(a.hi) ELSE NatLen(a.lo)

\* the value of the first n digits of s in the given radix
RECURSIVE NatOfDigits(_, _, _)
NatOfDigits(s, n, radix) ==
    IF n = 0 THEN 0 ELSE radix * NatOfDigits(s, n - 1, radix) + s[n]

HexDigitValue(c) ==
    CASE c \in {"a", "A"} -> 10
      [] c \in {"b", "B"} -> 11
      [] c \in {"c", "C"} -> 12
      [] c \in {"d", "D"} -> 13
      [] c \in {"e", "E"} -> 14
      [] c \in {"f", "F"} -> 15
      [] OTHER -> CHOOSE d \in 0..9 : HexChars[d + 1] = c

IsHexDigit(c) ==
    \/ c \in {"A", "B", "C", "D", "E", "F"}
    \/ \E d \in 1..16 : HexChars[d] = c

\* int(s, 2) of a non-empty list of bits: the low 16 bits are the low limb
IntOfBits(s) ==
    LET n == Len(s)
        h == Max(n - 16, 0)
        low == SubSeq(s, h + 1, n)
    IN  [hi |-> NatOfDigits(s, h, 2), lo |-> NatOfDigits(low, n - h, 2)]

\* int(s, 16) of a non-empty string of hex digits
IntOfHex(s) ==
    LET v == [i \in DOMAIN s |-> HexDigitValue(s[i])]
        n == Len(s)
        h == Max(n - 4, 0)
        low == SubSeq(v, h + 1, n)
    IN  [hi |-> NatOfDigits(v, h, 16), lo |-> NatOfDigits(low, n - h, 16)]

\* bin(x)[2:] for x >= 0, as a list of bits: "0" for zero
Bin(x) ==
    IF x = PyInt(0) THEN <<0>>
    ELSE [i \in 1..BitLength(x) |-> PyBit(x, BitLength(x) - i)]

\* hex(x) for x >= 0: "0x" and the digits without leading zeros
Hex(x) ==
    LET n == (BitLength(x) + 3) \div 4
        nibble(j) == 8 * PyBit(x, 4 * j + 3) + 4 * PyBit(x, 4 * j + 2)
                     + 2 * PyBit(x, 4 * j + 1) + PyBit(x, 4 * j)
    IN  <<"0", "x">> \o (IF x = PyInt(0) THEN <<"0">>
                         ELSE [i \in 1..n |-> HexChars[nibble(n - i) + 1]])

\* str.zfill(width): zeros on the left up to width, never shorter
Zfill(bits, width) == Zeros(width - Len(bits)) \o bits

\* np.float32 of an integer: exact up to 24 bits, else rounded to 24
\* significant bits, ties to even
RoundMagnitude(m) ==
    LET d == BitLength(m) - 24
        q == 2 ^ d
        r == ((m.hi % (2 ^ Max(d - 16, 0))) * Base + m.lo) % q
        up == 2 * r > q \/ (2 * r = q /\ PyBit(m, d) = 1)
    IN  PyAdd(PyAdd(m, PyInt(-r)), PyInt(IF up THEN q ELSE 0))

Float32(x) ==
    LET m == IF PyIsNeg(x) THEN PyNeg(x) ELSE x
    IN  IF BitLength(m) <= 24 THEN x
        ELSE IF PyIsNeg(x) THEN PyNeg(RoundMagnitude(m)) ELSE RoundMagnitude(m)

\* ------------------------------------------------------------- unpack
\* "ar_elem = data[0]; data.pop(0)"
PopBack(data) ==
    [elem |-> data[Len(data)], rest |-> SubSeq(data, 1, Len(data) - 1)]

PopFront(data) == [elem |-> Head(data), rest |-> Tail(data)]

\* ar_elem.split("x")[1]: the characters between the first and the second
\* "x"; IndexError without an "x"
AfterX(ar_elem) ==
    LET xs == {i \in DOMAIN ar_elem : ar_elem[i] = "x"}
        first == CHOOSE i \in xs : \A j \in xs : i <= j
        later == {i \in xs : i > first}
        stop == IF later = {} THEN Len(ar_elem) + 1
                ELSE CHOOSE i \in later : \A j \in later : i <= j
    IN  IF xs = {} THEN Raise("IndexError")
        ELSE Ok(SubSeq(ar_elem, first + 1, stop - 1))

\* "bin(int(ar_elem[1], 16))[2:].zfill(packedBits)" as a list of bits;
\* ValueError when the digits are empty or not hexadecimal
ElemBinNoZfill(digits, packedBits) ==
    IF digits = <<>> \/ \E i \in DOMAIN digits : ~IsHexDigit(digits[i])
    THEN Raise("ValueError")
    ELSE Ok(Bin(IntOfHex(digits)))

ElemBin(digits, packedBits) ==
    IF digits = <<>> \/ \E i \in DOMAIN digits : ~IsHexDigit(digits[i])
    THEN Raise("ValueError")
    ELSE Ok(Zfill(Bin(IntOfHex(digits)), packedBits))

\* the inner loop: chunk i is ar_elem_bin[i*targetBits:(i+1)*targetBits] of
\* the reversed bit list, reversed back and read by int(elem_str, 2), which
\* raises ValueError on an empty chunk
Chunk(rev, i, targetBits) ==
    Reverse(Slice(rev, i * targetBits, (i + 1) * targetBits))

ChunksLenient(ar_elem_bin, inner_dim_elems, targetBits) ==
    Ok([i \in 1..inner_dim_elems |->
           IntOfBits(Chunk(Reverse(ar_elem_bin), i - 1, targetBits))])

Chunks(ar_elem_bin, inner_dim_elems, targetBits) ==
    LET rev == Reverse(ar_elem_bin)
    IN  IF \E i \in 0..(inner_dim_elems - 1) : Chunk(rev, i, targetBits) = <<>>
        THEN Raise("ValueError")
        ELSE Ok([i \in 1..inner_dim_elems |->
                    IntOfBits(Chunk(rev, i - 1, targetBits))])

\* lines 111-112: "mask = 2 ** (dtype.bitwidth() - 1)" and
\* "-(x & mask) + (x & ~mask)"; mask is carried as its exponent
SignCorrect(x, dtype) ==
    LET mask == bitwidth(dtype) - 1
    IN  PyAdd(PyNeg(PyAndPow2(x, mask)), PyAndNotPow2(x, mask))

RtlCorrectAllSigned(ar_list, dtype) ==
    IF dtype = "BIPOLAR"
    THEN [i \in DOMAIN ar_list |-> PyAdd(PyMul(ar_list[i], 2), PyInt(-1))]
    ELSE IF signed(dtype)
    THEN [i \in DOMAIN ar_list |-> SignCorrect(ar_list[i], dtype)]
    ELSE ar_list

RtlCorrect(ar_list, dtype) ==
    IF dtype = "BIPOLAR"
    THEN [i \in DOMAIN ar_list |-> PyAdd(PyMul(ar_list[i], 2), PyInt(-1))]
    ELSE IF dtype = "INT2" \/ dtype = "INT32"
    THEN [i \in DOMAIN ar_list |-> SignCorrect(ar_list[i], dtype)]
    ELSE ar_list

\* lines 103-112: "if rtlsim is False: ar_list.reverse() else: ..."
Orient(ar_list, dtype, rtlsim) ==
    IF rtlsim = FALSE THEN Reverse(ar_list) ELSE RtlCorrect(ar_list, dtype)

\* the body of the outer loop for one word: lines 90-112
DecodeWord(ar_elem, dtype, inner_dim_elems, packedBits, targetBits, rtlsim) ==
    LET digits == AfterX(ar_elem)
    IN  IF digits.err # "none" THEN digits
        ELSE LET bits == ElemBin(digits.val, packedBits)
             IN  IF bits.err # "none" THEN bits
                 ELSE LET ar_list == Chunks(bits.val, inner_dim_elems, targetBits)
                      IN  IF ar_list.err # "none" THEN ar_list
                          ELSE Ok(Orient(ar_list.val, dtype, rtlsim))

\* the outer loop over range(outer_dim_elems); data is popped before the
\* word is parsed, so a failing word is gone from data as well
RECURSIVE UnpackLoop(_, _, _, _, _, _, _, _)
UnpackLoop(data, todo, array, dtype, inner_dim_elems, packedBits, targetBits, rtlsim) ==
    IF todo = 0 THEN [err |-> "none", array |-> array, data |-> data]
    ELSE IF data = <<>> THEN [err |-> "IndexError", array |-> array, data |-> data]
    ELSE LET popped == PopFront(data)
             row == DecodeWord(popped.elem, dtype, inner_dim_elems,
                               packedBits, targetBits, rtlsim)
         IN  IF row.err # "none"
             THEN [err |-> row.err, array |-> array, data |-> popped.rest]
             ELSE UnpackLoop(popped.rest, todo - 1, Append(array, row.val), dtype,
                             inner_dim_elems, packedBits, targetBits, rtlsim)

RECURSIVE Flatten(_)
Flatten(rows) == IF rows = <<>> THEN <<>> ELSE Head(rows) \o Flatten(Tail(rows))

\* the whole call: err, the returned ndarray (val), the caller's list after
\* the call (data) and the local list of rows before float32 (array)
unpack_innermost_dim_from_hex_string(data, dtype, shape, packedBits, targetBits, rtlsim) ==
    LET outer_dim_elems == Product(OuterShape(shape))
        inner_dim_elems == shape[Len(shape)]
        done == UnpackLoop(data, outer_dim_elems, <<>>, dtype, inner_dim_elems,
                           packedBits, targetBits, rtlsim)
        flat == Flatten(done.array)
    IN  [err |-> done.err,
         val |-> IF done.err # "none" THEN <<>>
                 ELSE [shape |-> shape,
                       flat |-> [i \in DOMAIN flat |-> Float32(flat[i])]],
         data |-> done.data,
         array |-> done.array]

\* ------------------------------------------------------------- adapters
\* lines 177-189 after np.load: reverse the flattened elements, pack the
\* rows, read the words as integers, reverse the list of words
npy_to_rtlsim_input(inp, input_dtype, pad_to_nbits) ==
    LET inp_rev == [shape |-> inp.shape, flat |-> Reverse(inp.flat)]
        packed_data == pack_innermost_dim_as_hex_string(inp_rev, input_dtype, pad_to_nbits)
    IN  IF packed_data.err # "none" THEN packed_data
        ELSE Ok(Reverse([i \in DOMAIN packed_data.val.flat |->
                            IntOfHex(Slice(packed_data.val.flat[i], 2,
                                           Len(packed_data.val.flat[i])))]))

\* line 198: "output = [hex(int(x)) for x in output]"
HexWords(output) == [i \in DOMAIN output |-> Hex(output[i])]

\* lines 198-202 up to np.save
rtlsim_output_to_npy(output, dtype, shape, packedBits, targetBits) ==
    unpack_innermost_dim_from_hex_string(HexWords(output), dtype, shape,
                                         packedBits, targetBits, TRUE)

\* ------------------------------------------------------------- inputs
\* the DataTypes whose tensors are enumerated
PackTypes == {d \in DataTypes : bitwidth(d) <= MaxBw}

\* samples handed to array2hexstring: legal values and one illegal value
\* (odd values only for BIPOLAR, see BipolarToBinary)
ArraySamples(dtype) ==
    IF dtype = "BIPOLAR" THEN {-1, 1, 3}
    ELSE IF dtype = "BINARY" THEN {0, 1, 2}
    ELSE IF signed(dtype) THEN {dtype_min(dtype), -1, 1, dtype_max(dtype) + 1}
    ELSE {0, 1, dtype_max(dtype) - 1, dtype_max(dtype) + 1}

LegalSamples(dtype) == {v \in ArraySamples(dtype) : allowed(dtype, v)}

\* shapes of one to three dimensions, no dimension empty
Shapes ==
    {sh \in UNION {[1..n -> 1..MaxElems] : n \in 1..3} : Product(sh) <= MaxElems}

\* lists of words without repetition
SampleWords ==
    {<<"0", "x", "6">>, <<"0", "x", "0", "e">>, <<"0", "x", "1", "b">>}

WordLists ==
    {ws \in UNION {[1..n -> SampleWords] : n \in 0..MaxWords} :
        \A i, j \in DOMAIN ws : i # j => ws[i] # ws[j]}

\* raw values of one chunk of width w: all of them up to 4 bits, the ends of
\* both halves of the range above
ChunkValues(w) ==
    IF w <= 4 THEN {PyInt(v) : v \in 0..(2 ^ w - 1)}
    ELSE IF w <= 16
    THEN {PyInt(0), PyInt(1), PyInt(2 ^ (w - 1) - 1), PyInt(2 ^ (w - 1)),
          PyInt(2 ^ w - 1)}
    ELSE {PyInt(0), PyInt(1), [hi |-> 2 ^ (w - 17) - 1, lo |-> Base - 1],
          [hi |-> 2 ^ (w - 17), lo |-> 0], [hi |-> 2 ^ (w - 16) - 1, lo |-> Base - 1]}

NoArray == [shape |-> <<0>>, flat |-> <<>>]

\* ------------------------------------------------------------- state
VARIABLES
    pc,            \* which call has been made on the inputs
    dtype,         \* the DataType argument
    ndarray,       \* the array or tensor handed to the packing functions
    pad_to_nbits,  \* the padding argument of the packing functions
    words,         \* the list handed to the unpacker, as it was at the call
    data,          \* the same list object, which the unpacker pops
    shape,         \* the unpacker's shape argument
    packedBits,    \* the unpacker's packedBits argument
    targetBits,    \* the unpacker's targetBits argument
    rtlsim,        \* the unpacker's rtlsim argument
    array,         \* the unpacker's local list of rows, before float32
    ret            \* the outcome of the last call: err and, without err, val

vars ==
    <<pc, dtype, ndarray, pad_to_nbits, words, data, shape, packedBits,
      targetBits, rtlsim, array, ret>>

\* a one-dimensional array for array2hexstring
InitArray ==
    /\ pc = "array"
    /\ dtype \in PackTypes
    /\ \E n \in 0..MaxLen :
           \E flat \in [1..n -> ArraySamples(dtype)] :
               ndarray = [shape |-> <<n>>, flat |-> flat]
    /\ pad_to_nbits \in 0..MaxPad
    /\ words = <<>> /\ data = <<>> /\ shape = <<0>>
    /\ packedBits = 0 /\ targetBits = 0 /\ rtlsim = FALSE

\* a legal tensor for pack_innermost_dim_as_hex_string and npy_to_rtlsim_input
InitTensor ==
    /\ pc = "tensor"
    /\ dtype \in PackTypes
    /\ \E sh \in Shapes :
           \E flat \in [1..Product(sh) -> LegalSamples(dtype)] :
               ndarray = [shape |-> sh, flat |-> flat]
    /\ pad_to_nbits \in 0..MaxPad
    /\ words = <<>> /\ data = <<>> /\ shape = <<0>>
    /\ packedBits = 0 /\ targetBits = 0 /\ rtlsim = FALSE

\* a list of words for unpack_innermost_dim_from_hex_string
InitWords ==
    /\ pc = "words"
    /\ dtype \in PackTypes
    /\ words \in WordLists
    /\ shape \in Shapes
    /\ packedBits \in 0..MaxPad
    /\ targetBits = bitwidth(dtype)
    /\ rtlsim \in BOOLEAN
    /\ data = words
    /\ ndarray = NoArray /\ pad_to_nbits = 0

\* one word holding one chunk of the DataType's width, any DataType
InitChunk ==
    /\ pc = "words"
    /\ dtype \in DataTypes
    /\ \E v \in ChunkValues(bitwidth(dtype)) : words = <<Hex(v)>>
    /\ shape = <<1>>
    /\ packedBits = bitwidth(dtype)
    /\ targetBits = bitwidth(dtype)
    /\ rtlsim \in BOOLEAN
    /\ data = words
    /\ ndarray = NoArray /\ pad_to_nbits = 0

Init ==
    /\ InitArray \/ InitTensor \/ InitWords \/ InitChunk
    /\ array = <<>>
    /\ ret = Ok(<<>>)

\* ------------------------------------------------------------- actions
Unpacked(u) ==
    /\ data' = u.data
    /\ array' = u.array
    /\ ret' = [err |-> u.err, val |-> u.val]

Array2HexString ==
    /\ pc = "array"
    /\ pc' = "hexed"
    /\ ret' = array2hexstring(ndarray.flat, dtype, pad_to_nbits)
    /\ UNCHANGED <<dtype, ndarray, pad_to_nbits, words, data, shape,
                   packedBits, targetBits, rtlsim, array>>

PackInnermostDim ==
    /\ pc = "tensor"
    /\ pc' = "packed"
    /\ ret' = pack_innermost_dim_as_hex_string(ndarray, dtype, pad_to_nbits)
    /\ UNCHANGED <<dtype, ndarray, pad_to_nbits, words, data, shape,
                   packedBits, targetBits, rtlsim, array>>

\* the flattened packed tensor handed back to the unpacker, not rtlsim
UnpackPacked ==
    /\ pc = "packed"
    /\ ret.err = "none"
    /\ pc' = "unpacked"
    /\ words' = ret.val.flat
    /\ shape' = ndarray.shape
    /\ packedBits' = pad_to_nbits
    /\ targetBits' = bitwidth(dtype)
    /\ rtlsim' = FALSE
    /\ Unpacked(unpack_innermost_dim_from_hex_string(
           ret.val.flat, dtype, ndarray.shape, pad_to_nbits, bitwidth(dtype), FALSE))
    /\ UNCHANGED <<dtype, ndarray, pad_to_nbits>>

UnpackInnermostDim ==
    /\ pc = "words"
    /\ pc' = "decoded"
    /\ Unpacked(unpack_innermost_dim_from_hex_string(
           data, dtype, shape, packedBits, targetBits, rtlsim))
    /\ UNCHANGED <<dtype, ndarray, pad_to_nbits, words, shape, packedBits,
                   targetBits, rtlsim>>

NpyToRtlsimInput ==
    /\ pc = "tensor"
    /\ pc' = "simin"
    /\ ret' = npy_to_rtlsim_input(ndarray, dtype, pad_to_nbits)
    /\ UNCHANGED <<dtype, ndarray, pad_to_nbits, words, data, shape,
                   packedBits, targetBits, rtlsim, array>>

\* the simulator hands the input sequence back unchanged
RtlsimOutputToNpy ==
    /\ pc = "simin"
    /\ ret.err = "none"
    /\ pc' = "simout"
    /\ words' = HexWords(ret.val)
    /\ shape' = ndarray.shape
    /\ packedBits' = pad_to_nbits
    /\ targetBits' = bitwidth(dtype)
    /\ rtlsim' = TRUE
    /\ Unpacked(rtlsim_output_to_npy(
           ret.val, dtype, ndarray.shape, pad_to_nbits, bitwidth(dtype)))
    /\ UNCHANGED <<dtype, ndarray, pad_to_nbits>>

Next ==
    \/ Array2HexString
    \/ PackInnermostDim
    \/ UnpackPacked
    \/ UnpackInnermostDim
    \/ NpyToRtlsimInput
    \/ RtlsimOutputToNpy

Spec == Init /\ [][Next]_vars

\* ------------------------------------------------------------- claims
\* what the formulas below read off a state
NaturalLength == Len(ndarray.flat) * bitwidth(dtype)

InnerLength == ndarray.shape[Len(ndarray.shape)]

Legal == \A i \in DOMAIN ndarray.flat : allowed(dtype, ndarray.flat[i])

\* the bw-bit field of a legal sample, as a natural number
Enc(v) == IF dtype = "BIPOLAR" THEN (v + 1) \div 2 ELSE v % (2 ^ bitwidth(dtype))

\* sum of Enc(v[i]) * 2^(bw * (n - i)) over the samples i = 1 .. n
RECURSIVE LayoutSum(_)
LayoutSum(v) ==
    IF v = <<>> THEN 0
    ELSE Enc(Head(v)) * (2 ^ (bitwidth(dtype) * (Len(v) - 1))) + LayoutSum(Tail(v))

\* the characters of a word after its "0x"
Digits(word) == SubSeq(word, 3, Len(word))

IsLowerHex(c) == \E d \in 1..16 : HexChars[d] = c

\* the unpacker has run on the list `words`
Decoded == pc \in {"decoded", "unpacked", "simout"}

OuterCount == Product(OuterShape(shape))

InnerCount == shape[Len(shape)]

\* bits of word r once zero-filled to packedBits
FilledLength(r) ==
    Max(packedBits, Max(1, BitLength(IntOfHex(Digits(words[r])))))

\* chunk i (1 is least significant) of word r, extended with zeros
RawChunk(r, i) ==
    IntOfBits([j \in 1..targetBits |->
        PyBit(IntOfHex(Digits(words[r])), i * targetBits - j)])

\* 2^w as a Python int
TwoTo(w) == IF w < 16 THEN PyInt(2 ^ w) ELSE [hi |-> 2 ^ (w - 16), lo |-> 0]

\* C1: round trip without rtlsim. For every legal tensor and every
\* pad_to_nbits >= innermost length * bitwidth, unpacking the flattened
\* packed tensor with packedBits = pad_to_nbits, targetBits = bitwidth and
\* rtlsim = False gives the tensor back, element for element.
C1_RoundTrip ==
    (pc = "unpacked" /\ pad_to_nbits >= InnerLength * bitwidth(dtype)) =>
        /\ ret.err = "none"
        /\ ret.val = [shape |-> ndarray.shape,
                      flat |-> [i \in DOMAIN ndarray.flat |-> PyInt(ndarray.flat[i])]]

\* C2: bit layout. For every legal vector and every pad_to_nbits >= n * bw
\* array2hexstring returns a word whose value is the sum of
\* Enc(v[i]) * 2^(bw * (n - 1 - i)): sample 0 most significant, padding zero.
C2_BitLayout ==
    (pc = "hexed" /\ Legal /\ pad_to_nbits >= NaturalLength) =>
        /\ ret.err = "none"
        /\ IntOfHex(Digits(ret.val)) = PyInt(LayoutSum(ndarray.flat))

\* The bit layout of C2 for every call that does return a word.
BitLayoutWhenReturned ==
    (pc = "hexed" /\ ret.err = "none") =>
        /\ SubSeq(ret.val, 1, 2) = <<"0", "x">>
        /\ IntOfHex(Digits(ret.val)) = PyInt(LayoutSum(ndarray.flat))

\* C3 as stated: whenever pad_to_nbits < len(v) * bitwidth, also below 4 and
\* for any samples, array2hexstring fails with the packing-overflow error.
C3_Original ==
    (pc = "hexed" /\ pad_to_nbits < NaturalLength) =>
        (ret.err = "Exception" /\ ret.val = <<>>)

\* C3 amended: for legal samples, array2hexstring fails with the
\* packing-overflow error and returns no string whenever
\* max(pad_to_nbits, 4) < len(v) * bitwidth.
C3_Overflow ==
    (pc = "hexed" /\ Legal /\ Max(pad_to_nbits, 4) < NaturalLength) =>
        (ret.err = "Exception" /\ ret.val = <<>>)

C3_Witness ==
    /\ pc = "hexed" /\ Legal
    /\ pad_to_nbits >= 4 /\ pad_to_nbits < NaturalLength
    /\ ret.err = "Exception"

\* C4: padding floor. With pad_to_nbits below 4 the outcome of
\* array2hexstring, hex string or error, is the outcome with pad_to_nbits = 4.
C4_PaddingFloor ==
    (pc = "hexed" /\ pad_to_nbits < 4) =>
        ret = array2hexstring(ndarray.flat, dtype, 4)

C4_Witness ==
    /\ pc = "hexed" /\ pad_to_nbits < 2
    /\ NaturalLength = 2
    /\ ret = Ok(<<"0", "x", "3">>)

\* C5: destructive consumption. When the unpacker returns, having been
\* called with L words and K <= L outer elements, the list holds the
\* original words K .. L-1 in order and row r was decoded from word r.
C5_Consumption ==
    (Decoded /\ ret.err = "none" /\ OuterCount <= Len(words)) =>
        /\ data = SubSeq(words, OuterCount + 1, Len(words))
        /\ Len(array) = OuterCount
        /\ \A r \in 1..OuterCount :
               /\ array[r] = DecodeWord(words[r], dtype, InnerCount, packedBits,
                                        targetBits, rtlsim).val
               /\ \A i \in 1..InnerCount :
                      ret.val.flat[(r - 1) * InnerCount + i] = Float32(array[r][i])

C5_Witness ==
    /\ pc = "decoded" /\ ret.err = "none"
    /\ OuterCount = 2 /\ Len(words) = 3
    /\ data = <<words[3]>>
    /\ array[1] # array[2]

\* C6: rtlsim value correction. A raw chunk v in 0 .. 2^W - 1 becomes, with
\* rtlsim = True, v - 2^W when the DataType is signed of width 2 or 32 and
\* v >= 2^(W-1), 2v - 1 for BIPOLAR, and v otherwise (any other DataType,
\* signed ones of other widths included); with rtlsim = False it stays v.
C6_Expected(v) ==
    IF ~rtlsim THEN v
    ELSE IF dtype = "BIPOLAR" THEN PyAdd(PyMul(v, 2), PyInt(-1))
    ELSE IF signed(dtype) /\ bitwidth(dtype) \in {2, 32}
    THEN IF PyBit(v, bitwidth(dtype) - 1) = 0 THEN v
         ELSE PyAdd(v, PyNeg(TwoTo(bitwidth(dtype))))
    ELSE v

C6_RtlCorrection ==
    (/\ pc = "decoded" /\ shape = <<1>> /\ Len(words) = 1
     /\ packedBits = bitwidth(dtype) /\ targetBits = bitwidth(dtype)
     /\ BitLength(IntOfHex(Digits(words[1]))) <= bitwidth(dtype)) =>
        /\ ret.err = "none"
        /\ array = << <<C6_Expected(IntOfHex(Digits(words[1])))>> >>

C6_Witness ==
    /\ pc = "decoded" /\ rtlsim /\ dtype = "INT2"
    /\ words = << <<"0", "x", "3">> >>
    /\ shape = <<1>> /\ packedBits = 2 /\ targetBits = 2
    /\ array = << <<PyInt(-1)>> >>

\* C7 as stated: the unpacker fails whenever targetBits * shape[-1] differs
\* from packedBits.
C7_Original ==
    (Decoded /\ targetBits * InnerCount # packedBits) => ret.err # "none"

\* C7 amended: the unpacker makes no such check. With targetBits * shape[-1]
\* different from packedBits and enough words, it fails exactly when some
\* chunk starts at or after the end of a word's zero-filled bits (parsing the
\* empty chunk raises ValueError); otherwise it returns a tensor.
C7_NoShapeCheck ==
    (/\ Decoded /\ targetBits * InnerCount # packedBits
     /\ OuterCount <= Len(words)) =>
        /\ ret.err \in {"none", "ValueError"}
        /\ ret.err = "none" <=>
               \A r \in 1..OuterCount :
                   (InnerCount - 1) * targetBits < FilledLength(r)

C7_Witness ==
    /\ pc = "decoded" /\ ret.err = "none"
    /\ targetBits * InnerCount < packedBits
    /\ OuterCount = 2

\* C8: hex word width. Every call with legal samples and pad_to_nbits >= the
\* natural length returns "0x" and exactly ceil(totalBits / 4) lowercase hex
\* digits, totalBits being pad_to_nbits raised to at least 4, also when
\* pad_to_nbits is no multiple of 4.
C8_HexWidth ==
    (pc = "hexed" /\ Legal /\ pad_to_nbits >= NaturalLength) =>
        /\ ret.err = "none"
        /\ SubSeq(ret.val, 1, 2) = <<"0", "x">>
        /\ Len(Digits(ret.val)) = (Max(pad_to_nbits, 4) + 3) \div 4
        /\ \A i \in DOMAIN Digits(ret.val) : IsLowerHex(Digits(ret.val)[i])

\* C9 as stated: the unpacker fails on every word with fewer than
\* packedBits / 4 hex digits.
C9_Original ==
    (/\ Decoded /\ OuterCount <= Len(words)
     /\ \E r \in 1..OuterCount : 4 * Len(Digits(words[r])) < packedBits) =>
        ret.err # "none"

\* C9 amended: a word with fewer than packedBits / 4 hex digits is
\* zero-extended to packedBits bits and decoded: with
\* targetBits * shape[-1] <= packedBits the call returns, and every chunk
\* holds the bits of the zero-extended word.
C9_ZeroExtended ==
    (/\ Decoded /\ OuterCount <= Len(words)
     /\ targetBits * InnerCount <= packedBits
     /\ \E r \in 1..OuterCount : 4 * Len(Digits(words[r])) < packedBits) =>
        /\ ret.err = "none"
        /\ \A r \in 1..OuterCount :
               array[r] = Orient([i \in 1..InnerCount |-> RawChunk(r, i)],
                                 dtype, rtlsim)

C9_Witness ==
    /\ pc = "decoded" /\ ret.err = "none"
    /\ words[1] = <<"0", "x", "6">> /\ packedBits = 8
    /\ targetBits * InnerCount = 8
    /\ OuterCount = 1

\* C10: adapter round trip. The sequence npy_to_rtlsim_input makes of a legal
\* tensor, handed unchanged to rtlsim_output_to_npy with the tensor's shape,
\* packedBits = pad_to_nbits and targetBits = bitwidth, gives the tensor back.
C10_AdapterRoundTrip ==
    (pc = "simout" /\ pad_to_nbits >= InnerLength * bitwidth(dtype)) =>
        /\ ret.err = "none"
        /\ ret.val = [shape |-> ndarray.shape,
                      flat |-> [i \in DOMAIN ndarray.flat |-> PyInt(ndarray.flat[i])]]

====
